---- MODULE Spec2Model ----
(***************************************************************************)
(* The backend of k8s-demo_experimental (backend/index.js): an express     *)
(* application over a PostgreSQL database, with JWT authentication, role   *)
(* gating, single-statement CRUD routes and two transactional routes       *)
(* (register, attendance).  The database is modelled by its rows, its      *)
(* SERIAL sequences and its sessions (READ COMMITTED transactions with     *)
(* row locks on unique keys); every await of index.js is one step.         *)
(***************************************************************************)
EXTENDS Integers, Sequences, FiniteSets, TLC

VARIABLES
    db,      \* the database: committed rows, sequences, relations created
    sess,    \* the sessions of pool (line 19): transaction state, checked out or not
    proc,    \* the backend processes running initDb, then listening
    slot,    \* register/attendance requests in flight (handlers between awaits)
    last,    \* the response just sent by a request that ended in this step
    nreq,    \* requests admitted so far
    applied  \* history: per attendance triple, the last write committed to it

vars == <<db, sess, proc, slot, last, nreq, applied>>

(***************************************************************************)
(* Bounds of the model.                                                    *)
(***************************************************************************)
MaxRequests == 2     \* requests that change the database or open a transaction
MaxBatch == 2        \* records[] of one attendance request

Procs == {1, 2}      \* backend processes (replicas) started against one database
Clients == {1, 2}    \* sessions of the pool
Slots == {1, 2}      \* transactional requests in flight at once

(***************************************************************************)
(* Values.                                                                 *)
(***************************************************************************)
Null == 0                     \* SQL NULL / JS null; SERIAL ids start at 1
Undefined == "<undefined>"    \* a field missing from a JSON body
Roles == {"admin", "teacher", "student"}
SALT_ROUNDS == 10

\* !x of JavaScript for the strings of a body
Falsy(x) == x \in {Undefined, ""}

\* bcrypt.hash / bcrypt.compare
BcryptHash(pw, rounds) == <<"$2b$", rounds, pw>>
BcryptCompare(pw, hash) == hash[1] = "$2b$" /\ hash[3] = pw

\* JSON values of a request body, with their typeof
Num(n) == [t |-> "number", v |-> n]
Bool(b) == [t |-> "boolean", v |-> b]
Str(x) == [t |-> "string", v |-> x]
Undef == [t |-> "undefined", v |-> Undefined]
TypeOf(x) == x.t
\* !x for a JSON value
Not(x) ==
    \/ TypeOf(x) = "undefined"
    \/ TypeOf(x) = "number" /\ x.v = 0
    \/ TypeOf(x) = "string" /\ x.v = ""
    \/ TypeOf(x) = "boolean" /\ x.v = FALSE

(***************************************************************************)
(* Tokens (jsonwebtoken) and the two middlewares, lines 111-136.           *)
(***************************************************************************)
JWT_SECRET == "dev_jwt_secret_change_me"

NoUser == [uid |-> Null, role |-> "", student_id |-> Null]

\* jwt.sign(payload, secret, {expiresIn: '8h'}): fresh, so not yet expired
JwtSign(payload, secret) ==
    [form |-> "jwt", payload |-> payload, key |-> secret, expired |-> FALSE]

\* jwt.verify(token, secret) does not throw
JwtVerifies(token, secret) ==
    token.form = "jwt" /\ token.key = secret /\ ~token.expired

\* user.student_id || null
OrNull(x) == IF x = 0 THEN Null ELSE x

\* faulty variant: the payload loses the linked student
SignTokenNoLink(user) ==
    JwtSign([uid |-> user.id, role |-> user.role, student_id |-> Null], JWT_SECRET)
signToken(user) ==
    JwtSign([uid |-> user.id, role |-> user.role, student_id |-> OrNull(user.student_id)],
            JWT_SECRET)

\* authenticate: next() was called with req.user set, or a response was sent
authenticate(hdr) ==
    IF hdr.scheme # "Bearer"
    THEN [next |-> FALSE, status |-> 401, error |-> "missing token", user |-> NoUser]
    ELSE IF JwtVerifies(hdr.token, JWT_SECRET)
    THEN [next |-> TRUE, status |-> 0, error |-> "", user |-> hdr.token.payload]
    ELSE [next |-> FALSE, status |-> 401, error |-> "invalid token", user |-> NoUser]

\* faulty variant: the allow-list is ignored
AuthorizeAnyone(allowedRoles, user) == [next |-> TRUE, status |-> 0, error |-> ""]
\* authorize(allowedRoles)(req, res, next)
authorize(allowedRoles, user) ==
    IF user = NoUser THEN [next |-> FALSE, status |-> 401, error |-> "not authenticated"]
    ELSE IF Cardinality(allowedRoles) = 0 THEN [next |-> TRUE, status |-> 0, error |-> ""]
    ELSE IF user.role \notin allowedRoles
    THEN [next |-> FALSE, status |-> 403, error |-> "forbidden"]
    ELSE [next |-> TRUE, status |-> 0, error |-> ""]

\* the middlewares each route is registered with
Routes ==
    [login          |-> [authenticate |-> FALSE, authorize |-> FALSE, roles |-> {}],
     register       |-> [authenticate |-> TRUE,  authorize |-> TRUE,  roles |-> {"admin"}],
     getItems       |-> [authenticate |-> FALSE, authorize |-> FALSE, roles |-> {}],
     postItems      |-> [authenticate |-> FALSE, authorize |-> FALSE, roles |-> {}],
     getStudents    |-> [authenticate |-> TRUE,  authorize |-> FALSE, roles |-> {}],
     postStudents   |-> [authenticate |-> TRUE,  authorize |-> TRUE,  roles |-> {"admin", "teacher"}],
     getCourses     |-> [authenticate |-> TRUE,  authorize |-> FALSE, roles |-> {}],
     postCourses    |-> [authenticate |-> TRUE,  authorize |-> TRUE,  roles |-> {"admin", "teacher"}],
     postAttendance |-> [authenticate |-> TRUE,  authorize |-> TRUE,  roles |-> {"admin", "teacher"}],
     getAttendance  |-> [authenticate |-> TRUE,  authorize |-> TRUE,  roles |-> {"admin", "teacher"}],
     getSelf        |-> [authenticate |-> TRUE,  authorize |-> TRUE,  roles |-> {"student"}],
     healthz        |-> [authenticate |-> FALSE, authorize |-> FALSE, roles |-> {}]]

\* the middleware chain of a route, up to its handler
Gate(route, hdr) ==
    LET a == IF Routes[route].authenticate THEN authenticate(hdr)
             ELSE [next |-> TRUE, status |-> 0, error |-> "", user |-> NoUser]
        z == IF a.next /\ Routes[route].authorize THEN authorize(Routes[route].roles, a.user)
             ELSE [next |-> a.next, status |-> a.status, error |-> a.error]
    IN  [next |-> z.next, status |-> z.status, error |-> z.error,
         user |-> IF z.next THEN a.user ELSE NoUser]

(***************************************************************************)
(* The database.                                                           *)
(***************************************************************************)
TableNames == {"items", "students", "courses", "attendance", "users"}
NoRows == [t \in TableNames |-> {}]

EmptyDb ==
    [data |-> NoRows,
     seq |-> [t \in TableNames |-> 0],
     rel |-> {}]

IdleSession == [tx |-> "idle", pend |-> NoRows, busy |-> FALSE]

\* rows `w' written over `base': a written row replaces the row of its id
Overlay(base, w) ==
    [t \in TableNames |->
        {r \in base[t] : \A p \in w[t] : p.id # r.id} \cup w[t]]

\* what a statement of session s sees: committed rows and its own writes
View(d, s) == IF s.tx = "open" THEN Overlay(d.data, s.pend) ELSE d.data

\* rows other sessions wrote in transactions still open (they hold the
\* locks of their unique keys)
Foreign(ss, c, t) ==
    UNION {ss[o].pend[t] : o \in {x \in DOMAIN ss : x # c /\ ss[x].tx # "idle"}}

Ok(seq, w, ret) == [err |-> "", seq |-> seq, w |-> w, ret |-> ret]
Err(code, seq) == [err |-> code, seq |-> seq, w |-> NoRows, ret |-> {}]

Bump(seq, t, n) == [seq EXCEPT ![t] = @ + n]
Put(t, rows) == [NoRows EXCEPT ![t] = rows]

\* SELECT count(*) FROM t: pg returns a bigint as a string
CountStar(v, t) == ToString(Cardinality(v[t]))

\* INSERT INTO t(name|text) VALUES (...), (...): one fresh id per row
InsertNamed(seq, t, field, vals) ==
    LET rows == {[id |-> seq[t] + i, name |-> vals[i]] : i \in 1..Len(vals)}
        items == {[id |-> seq[t] + i, text |-> vals[i]] : i \in 1..Len(vals)}
    IN  Ok(Bump(seq, t, Len(vals)), Put(t, IF field = "text" THEN items ELSE rows),
           IF field = "text" THEN items ELSE rows)

\* the first row of `rows' (a sequence of [username, password_hash, role,
\* student_id]) that violates a constraint of users, 0 when none does
RECURSIVE FirstBadUser(_, _, _)
FirstBadUser(v, rows, i) ==
    IF i > Len(rows) THEN 0
    ELSE LET r == rows[i]
             dup == \/ \E u \in v.users : u.username = r.username
                    \/ \E j \in 1..(i - 1) : rows[j].username = r.username
             bad == \/ r.role \notin Roles
                    \/ r.student_id # Null /\ ~\E s \in v.students : s.id = r.student_id
                    \/ dup
         IN  IF bad THEN i ELSE FirstBadUser(v, rows, i + 1)

UserErr(v, r) ==
    IF r.role \notin Roles THEN "23514"
    ELSE IF r.student_id # Null /\ ~\E s \in v.students : s.id = r.student_id THEN "23503"
    ELSE "23505"

\* INSERT INTO users(username,password_hash,role,student_id) VALUES ... RETURNING ...
\* nextval is taken for every row up to the failing one and is never given back
InsertUsers(v, seq, rows) ==
    LET bad == FirstBadUser(v, rows, 1)
        new == {[id |-> seq.users + i, username |-> rows[i].username,
                 password_hash |-> rows[i].password_hash, role |-> rows[i].role,
                 student_id |-> rows[i].student_id] : i \in 1..Len(rows)}
    IN  IF bad # 0 THEN Err(UserErr(v, rows[bad]), Bump(seq, "users", bad))
        ELSE Ok(Bump(seq, "users", Len(rows)), Put("users", new), new)

\* a statement's result applied to the database and to the session that ran it
ApplyDb(d, s, res) ==
    [d EXCEPT !.seq = res.seq,
              !.data = IF res.err = "" /\ s.tx = "idle" THEN Overlay(@, res.w) ELSE @]

ApplySess(s, res) ==
    IF s.tx = "open"
    THEN IF res.err = "" THEN [s EXCEPT !.pend = Overlay(@, res.w)]
         ELSE [s EXCEPT !.tx = "failed"]
    ELSE s

\* BEGIN: a second BEGIN in a transaction only warns
Begin(s) == IF s.tx = "idle" THEN [s EXCEPT !.tx = "open", !.pend = NoRows] ELSE s

\* COMMIT makes the writes of an open transaction the committed rows; on a
\* failed transaction it is a ROLLBACK, outside a transaction it only warns
Committed(d, s) == IF s.tx = "open" THEN [d EXCEPT !.data = Overlay(@, s.pend)] ELSE d

\* the session after COMMIT or ROLLBACK
EndTx(s) == [s EXCEPT !.tx = "idle", !.pend = NoRows]

\* a statement in a failed transaction is refused (25P02)
InTx(s, seq, res) == IF s.tx = "failed" THEN Err("25P02", seq) ELSE res

SameTriple(r, sid, cid, date) ==
    r.student_id = sid /\ r.course_id = cid /\ r.date = date

\* another session's unfinished transaction wrote the key: the statement waits
AttendanceLocked(ss, c, sid, cid, date) ==
    \E r \in Foreign(ss, c, "attendance") : SameTriple(r, sid, cid, date)
UsernameLocked(ss, c, name) ==
    \E r \in Foreign(ss, c, "users") : r.username = name

\* faulty variant: ON CONFLICT DO NOTHING
UpsertKeepsOld(old, present) == old
\* DO UPDATE SET present = EXCLUDED.present, recorded_at = now()
DoUpdate(old, present) == [old EXCEPT !.present = present]

\* INSERT INTO attendance(student_id, course_id, date, present) VALUES(...)
\* ON CONFLICT (student_id, course_id, date) DO UPDATE ...
UpsertAttendance(v, seq, sid, cid, date, present) ==
    LET hit == {r \in v.attendance : SameTriple(r, sid, cid, date)}
        seq1 == Bump(seq, "attendance", 1)
        row == [id |-> seq1.attendance, student_id |-> sid, course_id |-> cid,
                date |-> date, present |-> present]
    IN  IF hit # {}
        THEN Ok(seq1, Put("attendance", {DoUpdate(r, present) : r \in hit}), {})
        ELSE IF \/ ~\E x \in v.students : x.id = sid
                \/ ~\E x \in v.courses : x.id = cid
        THEN Err("23503", seq1)
        ELSE Ok(seq1, Put("attendance", {row}), {})

\* ORDER BY id / ORDER BY id DESC
RECURSIVE OrderById(_)
OrderById(rows) ==
    IF rows = {} THEN <<>>
    ELSE LET m == CHOOSE r \in rows : \A x \in rows : r.id <= x.id
         IN  <<m>> \o OrderById(rows \ {m})

\* faulty variant: DESC forgotten
OrderByIdAscending(rows) == OrderById(rows)
RECURSIVE OrderByIdDesc(_)
OrderByIdDesc(rows) ==
    IF rows = {} THEN <<>>
    ELSE LET m == CHOOSE r \in rows : \A x \in rows : r.id >= x.id
         IN  <<m>> \o OrderByIdDesc(rows \ {m})

\* a query parameter (a string) read as an integer column; -1: not a number
PgInteger(x) ==
    IF \E n \in 0..9 : ToString(n) = x THEN CHOOSE n \in 0..9 : ToString(n) = x ELSE -1

(***************************************************************************)
(* initDb (lines 21-105) and the startup (lines 367-369).                  *)
(***************************************************************************)
Relations == {"items", "students", "courses", "attendance", "attendance_unique_idx", "users"}

\* faulty variant: the count is not looked at
SeedAlways(count) == TRUE
\* res.rows[0].count === '0'
SeedNeeded(count) == count = "0"

WelcomeItems == <<"Bienvenidos a Kubernetes demo">>
DemoStudents == <<"Alumno Demo 1", "Alumno Demo 2", "Alumno Demo 3">>
DemoCourses == <<"Matematicas", "Historia">>

DemoUsers(firstStudentId) ==
    <<[username |-> "admin", password_hash |-> BcryptHash("adminpass", SALT_ROUNDS),
       role |-> "admin", student_id |-> Null],
      [username |-> "prof1", password_hash |-> BcryptHash("teacherpass", SALT_ROUNDS),
       role |-> "teacher", student_id |-> Null],
      [username |-> "student1", password_hash |-> BcryptHash("studentpass", SALT_ROUNDS),
       role |-> "student", student_id |-> firstStudentId]>>

\* SELECT id FROM students ORDER BY id LIMIT 1; students[0].id
FirstStudentId(v) == CHOOSE i \in {s.id : s \in v.students} : \A s \in v.students : i <= s.id

Running(p) == proc[p].pc \notin {"start", "listening", "exited"}

StartProc == [pc |-> "start", first |-> Null, overlapped |-> FALSE, prior |-> FALSE]

\* const client = await pool.connect()
InitConnect(p) ==
    /\ proc[p].pc = "start"
    /\ proc' = [q \in Procs |->
                  IF q = p
                  THEN [proc[p] EXCEPT !.pc = "create_items",
                                       !.overlapped = \E o \in Procs : o # p /\ Running(o),
                                       !.prior = \E o \in Procs : proc[o].pc = "listening"]
                  ELSE IF Running(q) THEN [proc[q] EXCEPT !.overlapped = TRUE]
                  ELSE proc[q]]
    /\ UNCHANGED <<db, sess, slot, last, nreq, applied>>

\* CREATE TABLE / CREATE UNIQUE INDEX IF NOT EXISTS
InitCreate(p, rel, next) ==
    /\ proc[p].pc = "create_" \o rel
    /\ db' = [db EXCEPT !.rel = @ \cup {rel}]
    /\ proc' = [proc EXCEPT ![p].pc = next]
    /\ UNCHANGED <<sess, slot, last, nreq, applied>>

\* SELECT count(*) FROM t, and the if that follows it
InitCount(p, t, skip) ==
    /\ proc[p].pc = "count_" \o t
    /\ proc' = [proc EXCEPT ![p].pc =
                  IF SeedNeeded(CountStar(db.data, t)) THEN "seed_" \o t ELSE skip]
    /\ UNCHANGED <<db, sess, slot, last, nreq, applied>>

\* INSERT INTO items / students / courses: the seed rows
InitSeed(p, t, vals, next) ==
    /\ proc[p].pc = "seed_" \o t
    /\ db' = ApplyDb(db, IdleSession,
                     InsertNamed(db.seq, t, IF t = "items" THEN "text" ELSE "name", vals))
    /\ proc' = [proc EXCEPT ![p].pc = next]
    /\ UNCHANGED <<sess, slot, last, nreq, applied>>

\* the three bcrypt.hash calls, then SELECT id FROM students ORDER BY id LIMIT 1
InitFirstStudent(p) ==
    /\ proc[p].pc = "seed_users"
    /\ db.data.students # {}
    /\ proc' = [proc EXCEPT ![p].pc = "insert_users",
                            ![p].first = FirstStudentId(db.data)]
    /\ UNCHANGED <<db, sess, slot, last, nreq, applied>>

\* INSERT INTO users ... the three demo users; a violation rejects initDb,
\* the finally releases the client and the startup's catch exits
InitSeedUsers(p) ==
    /\ proc[p].pc = "insert_users"
    /\ LET res == InsertUsers(db.data, db.seq, DemoUsers(proc[p].first))
       IN  /\ db' = ApplyDb(db, IdleSession, res)
           /\ proc' = [proc EXCEPT ![p].pc = IF res.err = "" THEN "listening" ELSE "exited"]
    /\ UNCHANGED <<sess, slot, last, nreq, applied>>

\* a query rejects (the database is unreachable): finally, then process.exit(1)
InitFail(p) ==
    /\ Running(p)
    /\ proc' = [proc EXCEPT ![p].pc = "exited"]
    /\ UNCHANGED <<db, sess, slot, last, nreq, applied>>

InitDbStep(p) ==
    \/ InitConnect(p)
    \/ InitCreate(p, "items", "count_items")
    \/ InitCount(p, "items", "create_students")
    \/ InitSeed(p, "items", WelcomeItems, "create_students")
    \/ InitCreate(p, "students", "create_courses")
    \/ InitCreate(p, "courses", "create_attendance")
    \/ InitCreate(p, "attendance", "create_attendance_unique_idx")
    \/ InitCreate(p, "attendance_unique_idx", "create_users")
    \/ InitCreate(p, "users", "count_students")
    \/ InitCount(p, "students", "count_courses")
    \/ InitSeed(p, "students", DemoStudents, "count_courses")
    \/ InitCount(p, "courses", "count_users")
    \/ InitSeed(p, "courses", DemoCourses, "count_users")
    \/ InitCount(p, "users", "listening")
    \/ InitFirstStudent(p)
    \/ InitSeedUsers(p)
    \/ InitFail(p)

InitDbNext == \E p \in Procs : InitDbStep(p)

InitDbInit ==
    /\ db = EmptyDb
    /\ sess = [c \in Clients |-> IdleSession]
    /\ proc = [p \in Procs |-> StartProc]
    /\ slot = [s \in Slots |-> [kind |-> "free"]]
    /\ last = [route |-> "none"]
    /\ nreq = 0
    /\ applied = {}

SpecInitDb == InitDbInit /\ [][InitDbNext]_vars

\* initDb run alone, start to finish, on database d
InitDbAlone(d) ==
    LET seed(x, t, f, vals) ==
            IF SeedNeeded(CountStar(x.data, t))
            THEN ApplyDb(x, IdleSession, InsertNamed(x.seq, t, f, vals)) ELSE x
        d1 == seed([d EXCEPT !.rel = @ \cup Relations], "items", "text", WelcomeItems)
        d2 == seed(d1, "students", "name", DemoStudents)
        d3 == seed(d2, "courses", "name", DemoCourses)
    IN  IF SeedNeeded(CountStar(d3.data, "users"))
        THEN ApplyDb(d3, IdleSession,
                     InsertUsers(d3.data, d3.seq, DemoUsers(FirstStudentId(d3.data))))
        ELSE d3

(***************************************************************************)
(* C8: initDb runs that do not overlap are idempotent: a statement of a    *)
(* run that no other run overlaps inserts nothing into a table that has    *)
(* rows, and changes nothing at all when an earlier run had completed.     *)
(***************************************************************************)
C8_InitDbIdempotent ==
    [][\A p \in Procs :
          (Running(p) /\ proc'[p] # proc[p] /\ ~proc[p].overlapped)
          => /\ \A t \in TableNames : db.data[t] # {} => db'.data[t] = db.data[t]
             /\ proc[p].prior => db' = db
             /\ proc'[p].pc = "listening" => db' = InitDbAlone(db')]_vars

\* a second run, overlapping nothing, has completed after a completed run
C8_SecondRunCompleted ==
    \E p \in Procs :
        /\ proc[p].pc = "listening" /\ proc[p].prior /\ ~proc[p].overlapped
        /\ db = InitDbAlone(EmptyDb)

\* C8, the overlapping case: two runs that overlap never seed a table twice
\* and neither exits on the users' unique constraint (TLC refutes this)
C8_OverlappingRunsSeedOnce ==
    /\ Cardinality(db.data.items) <= Len(WelcomeItems)
    /\ Cardinality(db.data.students) <= Len(DemoStudents)
    /\ Cardinality(db.data.courses) <= Len(DemoCourses)
    /\ db.seq.users <= Len(DemoUsers(1))

(***************************************************************************)
(* Requests: what a client may send.                                       *)
(***************************************************************************)
NoToken == [form |-> "none", payload |-> NoUser, key |-> "", expired |-> FALSE]
NoHeader == [scheme |-> "none", token |-> NoToken]

Bearer(uid, role, sid, key, expired) ==
    [scheme |-> "Bearer",
     token |-> [form |-> "jwt", payload |-> [uid |-> uid, role |-> role, student_id |-> sid],
                key |-> key, expired |-> expired]]

\* Authorization headers: none, another scheme, a Bearer that is no JWT, JWTs
\* signed with JWT_SECRET for each role, JWTs signed with another key, expired JWTs
Headers ==
    {NoHeader,
     [scheme |-> "Basic", token |-> NoToken],
     [scheme |-> "Bearer", token |-> [NoToken EXCEPT !.form = "garbage"]],
     Bearer(1, "admin", Null, JWT_SECRET, FALSE),
     Bearer(2, "teacher", Null, JWT_SECRET, FALSE),
     Bearer(3, "student", 1, JWT_SECRET, FALSE),
     Bearer(5, "student", Null, JWT_SECRET, FALSE),
     Bearer(1, "admin", Null, "forged", FALSE),
     Bearer(1, "admin", Null, JWT_SECRET, TRUE)}

Day == "2024-05-01"

Credentials(u, pw) == [username |-> u, password |-> pw]
LoginBodies ==
    {Credentials(Undefined, "pw"), Credentials("admin", Undefined),
     Credentials("ghost", "pw"), Credentials("admin", "pw"), Credentials("admin", "adminpass"),
     Credentials("student1", "studentpass"), Credentials("u1", "pw")}

NewUser(u, pw, role, name) ==
    [username |-> u, password |-> pw, role |-> role, student_name |-> name]
RegisterBodies ==
    {NewUser(u, "pw", r, n) : u \in {"admin", "u1"}, r \in Roles, n \in {Undefined, "Ana"}}
    \cup {NewUser(Undefined, "pw", "admin", Undefined), NewUser("u1", Undefined, "admin", Undefined),
           NewUser("u1", "pw", Undefined, Undefined), NewUser("u1", "pw", "root", Undefined)}

Rec(sid, present) == [student_id |-> sid, present |-> present]
Recs ==
    {Rec(Num(1), Bool(TRUE)), Rec(Num(1), Bool(FALSE)), Rec(Num(2), Bool(TRUE)),
     Rec(Num(9), Bool(TRUE)), Rec(Str("1"), Bool(TRUE)), Rec(Num(2), Str("yes"))}

\* what the for loop of line 298 finds when it asks records for its next
\* element, having read n of them: the end of the list, or a record
NextRecord(n) ==
    {[end |-> TRUE, r |-> Rec(Undef, Undef)]}
    \cup {[end |-> FALSE, r |-> x] : x \in IF n < MaxBatch THEN Recs ELSE {}}

\* course_id, date and whether records is an array; the records themselves
\* are drawn as the loop reaches them (NextRecord)
Batch(cid, date, isArray) == [course_id |-> cid, date |-> date, isArray |-> isArray]
AttendanceBodies ==
    {Batch(Num(1), Day, TRUE), Batch(Num(9), Day, TRUE), Batch(Undef, Day, TRUE),
     Batch(Num(1), Undefined, TRUE), Batch(Num(1), Day, FALSE)}

(***************************************************************************)
(* The routes answered with one query (pool.query) or none.                *)
(***************************************************************************)
Listening == proc[1].pc = "listening"
\* the previous response has been read: the next step may be taken
Ready == Listening /\ last.route = "none"
\* no register or attendance request is in flight
Quiet == \A s \in Slots : slot[s].kind = "free"
\* requests that change nothing (reads, requests refused by a middleware or by
\* validation) are taken between the transactional requests
Calm == Ready /\ Quiet
Free == {c \in Clients : ~sess[c].busy}
NoResponse == [route |-> "none"]

Respond(route, hdr, body, status, out, ran) ==
    last' = [route |-> route, hdr |-> hdr, body |-> body, status |-> status,
             out |-> out, ran |-> ran]

Error(msg) == [error |-> msg]

\* pool.query(text, params): the statement's result applied through session c
PoolQuery(c, res) ==
    /\ db' = ApplyDb(db, sess[c], res)
    /\ sess' = [sess EXCEPT ![c] = ApplySess(@, res)]

\* the client has read the response
Deliver ==
    /\ last.route # "none"
    /\ last' = NoResponse
    /\ UNCHANGED <<db, sess, proc, slot, nreq, applied>>

\* app.get('/healthz')
Healthz ==
    /\ Calm
    /\ Respond("healthz", NoHeader, "", 200, "ok", TRUE)
    /\ UNCHANGED <<db, sess, proc, slot, nreq, applied>>

\* app.post('/api/auth/login')
Login(body) ==
    /\ Calm
    /\ UNCHANGED <<db, sess, proc, slot, nreq, applied>>
    /\ IF Falsy(body.username) \/ Falsy(body.password)
       THEN Respond("login", NoHeader, body, 400, Error("username and password required"), TRUE)
       ELSE \E c \in Free :
            LET rows == {u \in View(db, sess[c]).users : u.username = body.username}
                user == CHOOSE u \in rows : TRUE
            IN  IF sess[c].tx = "failed"
                THEN Respond("login", NoHeader, body, 500, Error("server error"), TRUE)
                ELSE IF Cardinality(rows) = 0
                THEN Respond("login", NoHeader, body, 401, Error("invalid credentials"), TRUE)
                ELSE IF ~BcryptCompare(body.password, user.password_hash)
                THEN Respond("login", NoHeader, body, 401, Error("invalid credentials"), TRUE)
                ELSE Respond("login", NoHeader, body, 200,
                             [token |-> signToken(user), role |-> user.role, uid |-> user.id,
                              student_id |-> user.student_id], TRUE)

\* app.get('/api/items')
GetItems ==
    /\ Calm
    /\ UNCHANGED <<db, sess, proc, slot, nreq, applied>>
    /\ \E c \in Free :
          IF sess[c].tx = "failed"
          THEN Respond("getItems", NoHeader, "", 500, Error("db error"), TRUE)
          ELSE Respond("getItems", NoHeader, "", 200,
                       [rows |-> OrderByIdDesc(View(db, sess[c]).items)], TRUE)

\* app.post('/api/items')
PostItems(text) ==
    /\ Ready
    /\ UNCHANGED <<proc, slot, applied>>
    /\ IF Falsy(text)
       THEN /\ Quiet
            /\ Respond("postItems", NoHeader, text, 400, Error("text required"), TRUE)
            /\ UNCHANGED <<db, sess, nreq>>
       ELSE /\ nreq < MaxRequests
            /\ nreq' = nreq + 1
            /\ \E c \in Free :
                 LET res == InTx(sess[c], db.seq, InsertNamed(db.seq, "items", "text", <<text>>))
                 IN  /\ PoolQuery(c, res)
                     /\ IF res.err # ""
                        THEN Respond("postItems", NoHeader, text, 500, Error("db error"), TRUE)
                        ELSE Respond("postItems", NoHeader, text, 200,
                                     [row |-> CHOOSE r \in res.ret : TRUE], TRUE)

\* faulty variant: a student is treated as staff
StudentSeesAll(user) == FALSE
\* req.user.role === 'student'
OwnRowOnly(user) == user.role = "student"

\* app.get('/api/students')
GetStudents(hdr) ==
    /\ Calm
    /\ UNCHANGED <<db, sess, proc, slot, nreq, applied>>
    /\ LET g == Gate("getStudents", hdr)
       IN  IF ~g.next THEN Respond("getStudents", hdr, "", g.status, Error(g.error), FALSE)
           ELSE IF OwnRowOnly(g.user) /\ g.user.student_id = Null
           THEN Respond("getStudents", hdr, "", 403, Error("no student profile"), TRUE)
           ELSE \E c \in Free :
                LET v == View(db, sess[c])
                IN  IF sess[c].tx = "failed"
                    THEN Respond("getStudents", hdr, "", 500, Error("db error"), TRUE)
                    ELSE IF OwnRowOnly(g.user)
                    THEN Respond("getStudents", hdr, "", 200,
                            [rows |-> OrderById({x \in v.students : x.id = g.user.student_id})],
                            TRUE)
                    ELSE Respond("getStudents", hdr, "", 200,
                                 [rows |-> OrderById(v.students)], TRUE)

\* app.post('/api/students') and app.post('/api/courses')
PostNamed(route, t, hdr, name) ==
    /\ Ready
    /\ UNCHANGED <<proc, slot, applied>>
    /\ LET g == Gate(route, hdr)
       IN  IF ~g.next
           THEN /\ Quiet
                /\ Respond(route, hdr, "", g.status, Error(g.error), FALSE)
                /\ UNCHANGED <<db, sess, nreq>>
           ELSE IF Falsy(name)
           THEN /\ Quiet
                /\ Respond(route, hdr, name, 400, Error("name required"), TRUE)
                /\ UNCHANGED <<db, sess, nreq>>
           ELSE /\ nreq < MaxRequests
                /\ nreq' = nreq + 1
                /\ \E c \in Free :
                     LET res == InTx(sess[c], db.seq, InsertNamed(db.seq, t, "name", <<name>>))
                     IN  /\ PoolQuery(c, res)
                         /\ IF res.err # ""
                            THEN Respond(route, hdr, name, 500, Error("db error"), TRUE)
                            ELSE Respond(route, hdr, name, 200,
                                         [row |-> CHOOSE r \in res.ret : TRUE], TRUE)

PostStudents(hdr, name) == PostNamed("postStudents", "students", hdr, name)
PostCourses(hdr, name) == PostNamed("postCourses", "courses", hdr, name)

\* app.get('/api/courses')
GetCourses(hdr) ==
    /\ Calm
    /\ UNCHANGED <<db, sess, proc, slot, nreq, applied>>
    /\ LET g == Gate("getCourses", hdr)
       IN  IF ~g.next THEN Respond("getCourses", hdr, "", g.status, Error(g.error), FALSE)
           ELSE \E c \in Free :
                IF sess[c].tx = "failed"
                THEN Respond("getCourses", hdr, "", 500, Error("db error"), TRUE)
                ELSE Respond("getCourses", hdr, "", 200,
                             [rows |-> OrderById(View(db, sess[c]).courses)], TRUE)

\* SELECT a.*, s.name as student_name FROM attendance a JOIN students s ...
\* WHERE a.course_id = $1 AND a.date = $2 ORDER BY s.id
AttendanceOfCourse(v, cid, date) ==
    LET hit == {[id |-> y[1].id, student_id |-> y[1].student_id,
                 course_id |-> y[1].course_id, date |-> y[1].date,
                 present |-> y[1].present, student_name |-> y[2].name] :
                   y \in {z \in v.attendance \X v.students :
                            /\ z[2].id = z[1].student_id
                            /\ z[1].course_id = cid /\ z[1].date = date}}
    IN  [i \in 1..Cardinality(hit) |->
            CHOOSE a \in hit : Cardinality({b \in hit : b.student_id < a.student_id}) = i - 1]

\* app.get('/api/attendance')
GetAttendance(hdr, q) ==
    /\ Calm
    /\ UNCHANGED <<db, sess, proc, slot, nreq, applied>>
    /\ LET g == Gate("getAttendance", hdr)
       IN  IF ~g.next THEN Respond("getAttendance", hdr, "", g.status, Error(g.error), FALSE)
           ELSE IF Falsy(q.course_id) \/ Falsy(q.date)
           THEN Respond("getAttendance", hdr, q, 400, Error("course_id and date required"), TRUE)
           ELSE \E c \in Free :
                IF sess[c].tx = "failed" \/ PgInteger(q.course_id) < 0
                THEN Respond("getAttendance", hdr, q, 500, Error("db error"), TRUE)
                ELSE Respond("getAttendance", hdr, q, 200,
                        [rows |-> AttendanceOfCourse(View(db, sess[c]),
                                                     PgInteger(q.course_id), q.date)], TRUE)

\* SELECT a.*, c.name as course_name FROM attendance a JOIN courses c ...
\* WHERE a.student_id = $1 AND a.date = $2
AttendanceOfStudent(v, sid, date) ==
    {[id |-> y[1].id, student_id |-> y[1].student_id, course_id |-> y[1].course_id,
      date |-> y[1].date, present |-> y[1].present, course_name |-> y[2].name] :
        y \in {z \in v.attendance \X v.courses :
                 /\ z[2].id = z[1].course_id
                 /\ z[1].student_id = sid /\ z[1].date = date}}

\* app.get('/api/attendance/self')
GetSelf(hdr, date) ==
    /\ Calm
    /\ UNCHANGED <<db, sess, proc, slot, nreq, applied>>
    /\ LET g == Gate("getSelf", hdr)
       IN  IF ~g.next THEN Respond("getSelf", hdr, "", g.status, Error(g.error), FALSE)
           ELSE IF Falsy(date)
           THEN Respond("getSelf", hdr, date, 400, Error("date required"), TRUE)
           ELSE IF g.user.student_id = Null
           THEN Respond("getSelf", hdr, date, 400, Error("student profile not linked"), TRUE)
           ELSE \E c \in Free :
                IF sess[c].tx = "failed"
                THEN Respond("getSelf", hdr, date, 500, Error("db error"), TRUE)
                ELSE Respond("getSelf", hdr, date, 200,
                        [rows |-> AttendanceOfStudent(View(db, sess[c]), g.user.student_id, date)],
                        TRUE)

(***************************************************************************)
(* The two routes that hold a pooled client over several awaits: each      *)
(* request in flight is a slot, its pc the query it awaits.                *)
(***************************************************************************)
FreeSlot == [kind |-> "free"]
InFlight(s) == slot[s].kind # "free"
At(s, kind, pc) == Ready /\ slot[s].kind = kind /\ slot[s].pc = pc
\* the slot a new request takes
NextSlot == CHOOSE s \in Slots : ~InFlight(s) /\ \A o \in Slots : ~InFlight(o) => s <= o

NewSlot(kind, hdr, user, body) ==
    [kind |-> kind, pc |-> "connect", hdr |-> hdr, user |-> user, body |-> body,
     client |-> 0, read |-> 0, cur |-> Rec(Undef, Undef), writes |-> {},
     student_id |-> Null, err |-> "", ret |-> Null,
     begun |-> 0, released |-> 0, responded |-> 0]

\* const client = await pool.connect()
Connect(s, pc) ==
    \E c \in Free :
        /\ sess' = [sess EXCEPT ![c].busy = TRUE]
        /\ slot' = [slot EXCEPT ![s].client = c, ![s].pc = pc]

\* the response and the finally { client.release() } that end a request; sn is
\* the client's session after the handler's last query; ended counts the
\* COMMIT or ROLLBACK that closed the request's transaction
Finish(s, sn, status, out) ==
    /\ sess' = [sess EXCEPT ![slot[s].client] = [sn EXCEPT !.busy = FALSE]]
    /\ slot' = [slot EXCEPT ![s] = FreeSlot]
    /\ last' = [route |-> slot[s].kind, hdr |-> slot[s].hdr, body |-> slot[s].body,
                status |-> status, out |-> out, ran |-> TRUE, writes |-> slot[s].writes,
                begun |-> slot[s].begun,
                ended |-> IF sess[slot[s].client].tx # "idle" /\ sn.tx = "idle" THEN 1 ELSE 0,
                released |-> slot[s].released + 1, responded |-> slot[s].responded + 1,
                txAtRelease |-> sn.tx]

\* a statement of slot s fails in the catch that follows it
Caught(s, code) == [slot EXCEPT ![s].pc = "rollback_err", ![s].err = code]

(*************************** POST /api/auth/register ***********************)
\* faulty variant: no BEGIN, every statement commits by itself
RegBeginMissing(sn) == sn
\* await client.query('BEGIN'), line 173
RegBegin(sn) == Begin(sn)

\* faulty variant: a student row for every role
NeedsStudentAlways(role) == TRUE
\* if (role === 'student'), line 175
NeedsStudent(role) == role = "student"

\* faulty variant: the 400 is sent with the transaction left open
NoRollbackOnMissingName(sn) == sn
\* await client.query('ROLLBACK') before the 400 of line 176
OnMissingStudentName(sn) == EndTx(sn)

\* the request arrives: authenticate, authorize(['admin']), then lines 167-171
Register(hdr, body) ==
    /\ Ready
    /\ UNCHANGED <<db, sess, proc, applied>>
    /\ LET g == Gate("register", hdr)
       IN  IF ~g.next
           THEN /\ Quiet
                /\ Respond("register", hdr, "", g.status, Error(g.error), FALSE)
                /\ UNCHANGED <<slot, nreq>>
           ELSE IF Falsy(body.username) \/ Falsy(body.password) \/ Falsy(body.role)
           THEN /\ Quiet
                /\ Respond("register", hdr, body, 400, Error("username,password,role required"), TRUE)
                /\ UNCHANGED <<slot, nreq>>
           ELSE IF body.role \notin Roles
           THEN /\ Quiet
                /\ Respond("register", hdr, body, 400, Error("invalid role"), TRUE)
                /\ UNCHANGED <<slot, nreq>>
           ELSE /\ nreq < MaxRequests
                /\ \E s \in Slots : ~InFlight(s)
                /\ slot' = [slot EXCEPT ![NextSlot] = NewSlot("register", hdr, g.user, body)]
                /\ nreq' = nreq + 1
                /\ UNCHANGED last

RegConnect(s) ==
    /\ At(s, "register", "connect")
    /\ Connect(s, "begin")
    /\ UNCHANGED <<db, proc, last, nreq, applied>>

\* BEGIN, then lines 174-176 up to the next query
RegBeginStep(s) ==
    /\ At(s, "register", "begin")
    /\ sess' = [sess EXCEPT ![slot[s].client] = RegBegin(@)]
    /\ slot' = [slot EXCEPT ![s].begun = @ + 1,
                            ![s].pc = IF ~NeedsStudent(slot[s].body.role) THEN "ins_user"
                                      ELSE IF Falsy(slot[s].body.student_name) THEN "rollback400"
                                      ELSE "ins_student"]
    /\ UNCHANGED <<db, proc, last, nreq, applied>>

\* INSERT INTO students(name) VALUES($1) RETURNING id
RegInsertStudent(s) ==
    /\ At(s, "register", "ins_student")
    /\ LET c == slot[s].client
           res == InTx(sess[c], db.seq,
                       InsertNamed(db.seq, "students", "name", <<slot[s].body.student_name>>))
       IN  /\ PoolQuery(c, res)
           /\ slot' = IF res.err # "" THEN Caught(s, res.err)
                      ELSE [slot EXCEPT ![s].pc = "ins_user",
                                        ![s].student_id = (CHOOSE r \in res.ret : TRUE).id]
    /\ UNCHANGED <<proc, last, nreq, applied>>

\* bcrypt.hash(password, SALT_ROUNDS), then INSERT INTO users ... RETURNING ...
RegInsertUser(s) ==
    /\ At(s, "register", "ins_user")
    /\ ~UsernameLocked(sess, slot[s].client, slot[s].body.username)
    /\ LET c == slot[s].client
           b == slot[s].body
           row == [username |-> b.username, password_hash |-> BcryptHash(b.password, SALT_ROUNDS),
                   role |-> b.role, student_id |-> slot[s].student_id]
           res == InTx(sess[c], db.seq, InsertUsers(View(db, sess[c]), db.seq, <<row>>))
       IN  /\ PoolQuery(c, res)
           /\ slot' = IF res.err # "" THEN Caught(s, res.err)
                      ELSE [slot EXCEPT ![s].pc = "commit",
                                        ![s].ret = CHOOSE r \in res.ret : TRUE]
    /\ UNCHANGED <<proc, last, nreq, applied>>

\* COMMIT; res.json(ur[0]); finally
RegCommit(s) ==
    /\ At(s, "register", "commit")
    /\ db' = Committed(db, sess[slot[s].client])
    /\ Finish(s, EndTx(sess[slot[s].client]), 200,
              [row |-> [id |-> slot[s].ret.id, username |-> slot[s].ret.username,
                        role |-> slot[s].ret.role, student_id |-> slot[s].ret.student_id]])
    /\ UNCHANGED <<proc, nreq, applied>>

\* line 176: ROLLBACK; 400 'student_name required for role student'; finally
RegMissingName(s) ==
    /\ At(s, "register", "rollback400")
    /\ Finish(s, OnMissingStudentName(sess[slot[s].client]), 400,
              Error("student_name required for role student"))
    /\ UNCHANGED <<db, proc, nreq, applied>>

\* the catch of lines 184-187: ROLLBACK; 23505 is 400 'username exists', any
\* other error is rethrown to the outer catch's 500; finally
RegCatch(s) ==
    /\ At(s, "register", "rollback_err")
    /\ Finish(s, EndTx(sess[slot[s].client]),
              IF slot[s].err = "23505" THEN 400 ELSE 500,
              IF slot[s].err = "23505" THEN Error("username exists") ELSE Error("server error"))
    /\ UNCHANGED <<db, proc, nreq, applied>>

(***************************** POST /api/attendance ************************)
\* faulty variant: no BEGIN, every upsert commits by itself
AttBeginMissing(sn) == sn
\* await client.query('BEGIN'), line 297
AttBegin(sn) == Begin(sn)

\* await client.query('ROLLBACK') before the 400 of line 301
OnBadRecord(sn) == EndTx(sn)

\* typeof r.student_id !== 'number' || typeof r.present !== 'boolean'
BadRecord(r) == TypeOf(r.student_id) # "number" \/ TypeOf(r.present) # "boolean"

\* the for loop of line 298 with n as its next element: the query it awaits next
AttLoop(n) ==
    IF n.end THEN "commit"
    ELSE IF BadRecord(n.r) THEN "rollback400"
    ELSE "upsert"

\* the slot when the loop has taken n from records
Taken(sl, n) ==
    [sl EXCEPT !.pc = AttLoop(n), !.cur = n.r, !.read = IF n.end THEN @ ELSE @ + 1]

\* the writes of a request so far, with one more: the last one of a triple stays
Written(writes, sid, cid, date, present) ==
    {w \in writes : ~SameTriple(w, sid, cid, date)}
    \cup {[student_id |-> sid, course_id |-> cid, date |-> date, present |-> present]}

\* the request arrives: authenticate, authorize(['admin','teacher']), then
\* the handler awaits pool.connect() before it reads the body
PostAttendance(hdr, body) ==
    /\ Ready
    /\ UNCHANGED <<db, sess, proc, applied>>
    /\ LET g == Gate("postAttendance", hdr)
       IN  IF ~g.next
           THEN /\ Quiet
                /\ Respond("postAttendance", hdr, "", g.status, Error(g.error), FALSE)
                /\ UNCHANGED <<slot, nreq>>
           ELSE /\ nreq < MaxRequests
                /\ \E s \in Slots : ~InFlight(s)
                /\ slot' = [slot EXCEPT ![NextSlot] = NewSlot("postAttendance", hdr, g.user, body)]
                /\ nreq' = nreq + 1
                /\ UNCHANGED last

\* pool.connect() resolves, then lines 292-297 up to BEGIN
AttConnect(s) ==
    /\ At(s, "postAttendance", "connect")
    /\ LET b == slot[s].body
       IN  IF Not(b.course_id) \/ Falsy(b.date) \/ ~b.isArray
           THEN /\ \E c \in Free :
                     /\ sess' = [sess EXCEPT ![c].busy = FALSE]
                     /\ slot' = [slot EXCEPT ![s] = FreeSlot]
                     /\ last' = [route |-> "postAttendance", hdr |-> slot[s].hdr, body |-> b,
                                 status |-> 400,
                                 out |-> Error("course_id, date and records[] required"),
                                 ran |-> TRUE, writes |-> {}, begun |-> 0, ended |-> 0,
                                 released |-> 1,
                                 responded |-> 1, txAtRelease |-> sess[c].tx]
           ELSE Connect(s, "begin") /\ UNCHANGED last
    /\ UNCHANGED <<db, proc, nreq, applied>>

\* BEGIN, then the loop up to its first query
AttBeginStep(s) ==
    /\ At(s, "postAttendance", "begin")
    /\ sess' = [sess EXCEPT ![slot[s].client] = AttBegin(@)]
    /\ \E n \in NextRecord(slot[s].read) :
          slot' = [slot EXCEPT ![s] = Taken([@ EXCEPT !.begun = @ + 1], n)]
    /\ UNCHANGED <<db, proc, last, nreq, applied>>

\* the INSERT ... ON CONFLICT of the current record, then the loop up to its next query
AttUpsert(s) ==
    /\ At(s, "postAttendance", "upsert")
    /\ LET c == slot[s].client
           b == slot[s].body
           r == slot[s].cur
           res == InTx(sess[c], db.seq,
                       UpsertAttendance(View(db, sess[c]), db.seq, r.student_id.v,
                                        b.course_id.v, b.date, r.present.v))
       IN  /\ ~AttendanceLocked(sess, c, r.student_id.v, b.course_id.v, b.date)
           /\ PoolQuery(c, res)
           /\ IF res.err # "" THEN slot' = Caught(s, res.err)
              ELSE \E n \in NextRecord(slot[s].read) :
                      slot' = [slot EXCEPT ![s] =
                                 Taken([@ EXCEPT !.writes = Written(@, r.student_id.v,
                                                       b.course_id.v, b.date, r.present.v)], n)]
    /\ UNCHANGED <<proc, last, nreq, applied>>

\* COMMIT; res.json({ok: true}); finally
AttCommit(s) ==
    /\ At(s, "postAttendance", "commit")
    /\ db' = Committed(db, sess[slot[s].client])
    /\ applied' = {e \in applied :
                     \A w \in slot[s].writes :
                        ~SameTriple(e, w.student_id, w.course_id, w.date)}
                  \cup slot[s].writes
    /\ Finish(s, EndTx(sess[slot[s].client]), 200, [ok |-> TRUE])
    /\ UNCHANGED <<proc, nreq>>

\* lines 300-301: ROLLBACK; 400 'each record must have ...'; finally
AttBadRecord(s) ==
    /\ At(s, "postAttendance", "rollback400")
    /\ Finish(s, OnBadRecord(sess[slot[s].client]), 400,
              Error("each record must have student_id (number) and present (boolean)"))
    /\ UNCHANGED <<db, proc, nreq, applied>>

\* the catch of lines 312-315: ROLLBACK; 500 'db error'; finally
AttCatch(s) ==
    /\ At(s, "postAttendance", "rollback_err")
    /\ Finish(s, EndTx(sess[slot[s].client]), 500, Error("db error"))
    /\ UNCHANGED <<db, proc, nreq, applied>>

(***************************************************************************)
(* Waiting for a row lock, and the deadlock the database breaks.           *)
(***************************************************************************)
\* the sessions whose unfinished transaction makes slot s wait
Blockers(s) ==
    IF ~InFlight(s) THEN {}
    ELSE IF slot[s].kind = "register" /\ slot[s].pc = "ins_user"
    THEN {c \in Clients : c # slot[s].client /\ sess[c].tx # "idle"
             /\ \E r \in sess[c].pend.users : r.username = slot[s].body.username}
    ELSE IF slot[s].kind = "postAttendance" /\ slot[s].pc = "upsert"
    THEN {c \in Clients : c # slot[s].client /\ sess[c].tx # "idle"
             /\ \E r \in sess[c].pend.attendance :
                   SameTriple(r, slot[s].cur.student_id.v,
                              slot[s].body.course_id.v, slot[s].body.date)}
    ELSE {}

\* slot s waits for a session whose own request waits for s: the database
\* aborts the statement of s with 40P01, which lands in the handler's catch
Deadlock(s) ==
    /\ Ready
    /\ \E o \in Slots :
          /\ o # s /\ InFlight(o)
          /\ slot[o].client \in Blockers(s)
          /\ slot[s].client \in Blockers(o)
    /\ sess' = [sess EXCEPT ![slot[s].client].tx = "failed"]
    /\ slot' = Caught(s, "40P01")
    /\ UNCHANGED <<db, proc, last, nreq, applied>>

(***************************************************************************)
(* The backend after a first start on an empty database.                   *)
(***************************************************************************)
Init ==
    /\ db = InitDbAlone(EmptyDb)
    /\ sess = [c \in Clients |-> IdleSession]
    /\ proc = [p \in Procs |-> IF p = 1 THEN [StartProc EXCEPT !.pc = "listening"]
                               ELSE StartProc]
    /\ slot = [s \in Slots |-> FreeSlot]
    /\ last = NoResponse
    /\ nreq = 0
    /\ applied = {}

Next ==
    \/ Deliver
    \/ Healthz
    \/ \E b \in LoginBodies : Login(b)
    \/ GetItems
    \/ \E t \in {Undefined, "", "x"} : PostItems(t)
    \/ \E h \in Headers : GetStudents(h)
    \/ \E h \in Headers, n \in {Undefined, "Ana"} : PostStudents(h, n)
    \/ \E h \in Headers : GetCourses(h)
    \/ \E h \in Headers, n \in {Undefined, "Fisica"} : PostCourses(h, n)
    \/ \E h \in Headers, q \in [course_id : {Undefined, "1", "x"}, date : {Undefined, Day}] :
          GetAttendance(h, q)
    \/ \E h \in Headers, d \in {Undefined, Day} : GetSelf(h, d)
    \/ \E h \in Headers, b \in RegisterBodies : Register(h, b)
    \/ \E h \in Headers, b \in AttendanceBodies : PostAttendance(h, b)
    \/ \E s \in Slots :
          \/ RegConnect(s) \/ RegBeginStep(s) \/ RegInsertStudent(s) \/ RegInsertUser(s)
          \/ RegCommit(s) \/ RegMissingName(s) \/ RegCatch(s)
          \/ AttConnect(s) \/ AttBeginStep(s) \/ AttUpsert(s)
          \/ AttCommit(s) \/ AttBadRecord(s) \/ AttCatch(s)
          \/ Deadlock(s)

Spec == Init /\ [][Next]_vars

(***************************************************************************)
(* The properties of the API, checked under Spec.                          *)
(***************************************************************************)

\* C1: the attendance table never holds two rows with the same (student_id,
\* course_id, date), neither as committed nor as any session sees it; and the
\* present value of a triple's row is the one of the latest write committed
\* for that triple (applied), whether the writes came from concurrent
\* requests or from one batch that lists the student twice.
C1_OneRowPerTriple ==
    /\ \A c \in Clients : \A a, b \in View(db, sess[c]).attendance :
          SameTriple(a, b.student_id, b.course_id, b.date) => a = b
    /\ \A a, b \in db.data.attendance :
          SameTriple(a, b.student_id, b.course_id, b.date) => a = b
    /\ \A a \in db.data.attendance :
          \E e \in applied : /\ SameTriple(e, a.student_id, a.course_id, a.date)
                             /\ e.present = a.present
    /\ \A e \in applied :
          \E a \in db.data.attendance : /\ SameTriple(a, e.student_id, e.course_id, e.date)
                                        /\ a.present = e.present

\* a committed batch wrote present = FALSE over the row a first write inserted
C1_TripleWrittenTwice ==
    /\ last.route = "postAttendance" /\ last.status = 200
    /\ db.seq.attendance >= 2
    /\ Cardinality(db.data.attendance) = 1
    /\ \E a \in db.data.attendance, w \in last.writes :
          /\ SameTriple(a, w.student_id, w.course_id, w.date)
          /\ a.id = 1 /\ a.present = FALSE /\ w.present = FALSE

\* C2: POST /api/attendance is all-or-nothing: the attendance table changes
\* only in the step that answers a POST /api/attendance with 200, and then
\* only in rows the request wrote; a request answered otherwise (400 for a
\* malformed record, 500 for a failed statement) leaves every table as it was,
\* and none of its rows appears later.
C2_AttendanceAllOrNothing ==
    [][/\ db'.data.attendance # db.data.attendance =>
            /\ last.route = "none" /\ last'.route = "postAttendance" /\ last'.status = 200
            /\ \A a \in db'.data.attendance \ db.data.attendance :
                  \E w \in last'.writes : /\ SameTriple(a, w.student_id, w.course_id, w.date)
                                          /\ a.present = w.present
            /\ \A a \in db.data.attendance \ db'.data.attendance :
                  \E w \in last'.writes : SameTriple(a, w.student_id, w.course_id, w.date)
       /\ (last.route = "none" /\ last'.route = "postAttendance" /\ last'.status # 200) =>
            db'.data = db.data
       /\ (last.route = "none" /\ last'.route = "postAttendance" /\ last'.status = 200) =>
            \A w \in last'.writes : \E a \in db'.data.attendance :
                SameTriple(a, w.student_id, w.course_id, w.date) /\ a.present = w.present]_vars

\* a batch whose first record was upserted and whose second was malformed:
\* answered 400, the table still empty
C2_BatchRolledBack ==
    /\ last.route = "postAttendance" /\ last.status = 400 /\ last.ran
    /\ last.begun = 1 /\ last.writes # {}
    /\ db.seq.attendance >= 1
    /\ db.data.attendance = {}

\* C3: the users table changes only in the step that answers a register
\* request with 200 and the students table only with a 200 of register (role
\* student) or of POST /api/students; a register request whose username is
\* already a user's is answered 400 (with 'username exists' when the body is
\* otherwise complete) and leaves no row, the student row it inserted
\* included; a successful registration with role student adds exactly one
\* student row and exactly one user row, the user's student_id being the new
\* student's id.
C3_RegisterAtomic ==
    [][/\ db'.data.users # db.data.users =>
            last.route = "none" /\ last'.route = "register" /\ last'.status = 200
       /\ db'.data.students # db.data.students =>
            /\ last.route = "none" /\ last'.status = 200
            /\ \/ last'.route = "postStudents"
               \/ last'.route = "register" /\ last'.body.role = "student"
       /\ (last.route = "none" /\ last'.route = "register" /\ last'.ran) =>
            LET b == last'.body
                taken == \E u \in db.data.users : u.username = b.username
                complete == /\ ~Falsy(b.username) /\ ~Falsy(b.password) /\ b.role \in Roles
                            /\ b.role = "student" => ~Falsy(b.student_name)
            IN  /\ taken => last'.status = 400 /\ db'.data = db.data
                /\ (taken /\ complete) => last'.out = Error("username exists")
                /\ last'.status # 200 => db'.data = db.data
                /\ (last'.status = 200 /\ b.role = "student") =>
                      \E x \in db'.data.students, u \in db'.data.users :
                         /\ x \notin db.data.students
                         /\ db'.data.students = db.data.students \cup {x}
                         /\ u \notin db.data.users
                         /\ db'.data.users = db.data.users \cup {u}
                         /\ x.name = b.student_name
                         /\ u.username = b.username /\ u.role = "student"
                         /\ u.student_id = x.id
                         /\ last'.out.row.student_id = x.id
                         /\ last'.out.row.id = u.id]_vars

\* a student registration with a username already taken: 400, and the id the
\* students sequence gave to the rolled-back row is missing from the table
C3_StudentRowRolledBack ==
    /\ last.route = "register" /\ last.status = 400
    /\ last.out = Error("username exists")
    /\ last.body.role = "student" /\ last.body.student_name = "Ana"
    /\ db.seq.students > Cardinality(db.data.students)

\* C4: on a protected route the handler runs only after authenticate and
\* then authorize let the request through: a missing or invalid token is
\* answered 401 and a valid token whose role is outside the route's allow-list
\* 403, in both cases without the handler running and with the database and
\* the requests in flight unchanged; a request in flight always carries a
\* valid token of an allowed role; an empty allow-list admits every
\* authenticated role; the allow-lists are register {admin}; POST students,
\* POST courses, POST attendance, GET attendance {admin, teacher}; GET
\* attendance/self {student}.
C4_GateBeforeHandler ==
    [][LET Allow == [register |-> {"admin"},
                     postStudents |-> {"admin", "teacher"},
                     postCourses |-> {"admin", "teacher"},
                     postAttendance |-> {"admin", "teacher"},
                     getAttendance |-> {"admin", "teacher"},
                     getSelf |-> {"student"}]
           Open == {"getStudents", "getCourses"}
           Valid(h) == h.scheme = "Bearer" /\ JwtVerifies(h.token, JWT_SECRET)
           r == last'.route
           h == last'.hdr
       IN  /\ (last.route = "none" /\ r \in DOMAIN Allow \cup Open) =>
                /\ ~Valid(h) =>
                      last'.status = 401 /\ ~last'.ran /\ db' = db /\ slot' = slot
                /\ (Valid(h) /\ r \in DOMAIN Allow /\ h.token.payload.role \notin Allow[r]) =>
                      last'.status = 403 /\ ~last'.ran /\ db' = db /\ slot' = slot
                /\ (Valid(h) /\ (r \in Open \/ h.token.payload.role \in Allow[r])) => last'.ran
           /\ \A s \in Slots : slot'[s].kind # "free" =>
                /\ slot'[s].kind \in DOMAIN Allow
                /\ Valid(slot'[s].hdr)
                /\ slot'[s].hdr.token.payload.role \in Allow[slot'[s].kind]
           /\ \A u \in [uid : 1..5, role : Roles, student_id : {Null, 1}] : authorize({}, u).next
           /\ \A x \in DOMAIN Allow :
                Routes[x].authenticate /\ Routes[x].authorize /\ Routes[x].roles = Allow[x]]_vars

\* a student's valid token on POST /api/attendance: 403, the handler did not run
C4_StudentForbidden ==
    /\ last.route = "postAttendance" /\ last.status = 403 /\ ~last.ran
    /\ last.hdr.token.payload.role = "student"
    /\ JwtVerifies(last.hdr.token, JWT_SECRET)

\* C5: a login with a username and a password is answered 401 without a
\* token when no user has the username or the password is not the one the
\* stored hash was made from; otherwise it is answered with a token that
\* verifies under JWT_SECRET and whose payload is the user's id, role and
\* student_id (null for a user without a linked student); no login changes
\* the database.
C5_Login ==
    [][(last.route = "none" /\ last'.route = "login") =>
          LET b == last'.body
              known == {u \in db.data.users : u.username = b.username}
          IN  /\ db' = db
              /\ (~Falsy(b.username) /\ ~Falsy(b.password)) =>
                    IF \A u \in known : u.password_hash # BcryptHash(b.password, SALT_ROUNDS)
                    THEN /\ last'.status = 401
                         /\ "token" \notin DOMAIN last'.out
                    ELSE \E u \in known :
                         /\ last'.status = 200
                         /\ JwtVerifies(last'.out.token, JWT_SECRET)
                         /\ last'.out.token.payload =
                               [uid |-> u.id, role |-> u.role, student_id |-> u.student_id]]_vars

\* a student linked to a student row has logged in
C5_LinkedStudentToken ==
    /\ last.route = "login" /\ last.status = 200
    /\ last.out.token.payload.role = "student"
    /\ last.out.token.payload.student_id # Null

\* C6: GET /api/students with a student's token answers 403 when the token
\* carries no student_id and otherwise returns exactly the student row whose
\* id is the token's student_id; GET /api/attendance/self returns only
\* attendance rows of the token's student_id.
C6_StudentSeesOwnRows ==
    /\ (last.route = "getStudents" /\ last.ran /\ last.hdr.token.payload.role = "student") =>
          LET me == last.hdr.token.payload.student_id
          IN  IF me = Null THEN last.status = 403
              ELSE /\ last.status = 200
                   /\ \A i \in DOMAIN last.out.rows : last.out.rows[i].id = me
                   /\ Len(last.out.rows) = Cardinality({x \in db.data.students : x.id = me})
    /\ (last.route = "getSelf" /\ last.status = 200) =>
          /\ \A a \in last.out.rows :
                a.student_id = last.hdr.token.payload.student_id /\ a.date = last.body
          /\ {a.id : a \in last.out.rows} =
                {a.id : a \in {x \in db.data.attendance :
                                 /\ x.student_id = last.hdr.token.payload.student_id
                                 /\ x.date = last.body}}

\* a student has listed the students and got one row, the table holding more
C6_OwnRowAmongMany ==
    /\ last.route = "getStudents" /\ last.status = 200
    /\ last.hdr.token.payload.role = "student"
    /\ Len(last.out.rows) = 1
    /\ Cardinality(db.data.students) > 1

\* C7: every user row has a role among admin, teacher and student, and a
\* student_id only when its role is student; a registration with role admin
\* or teacher creates no student row and stores a null student_id, whether
\* or not the body carries a student_name.
C7_RolesAndLinks ==
    [][/\ \A u \in db'.data.users :
            u.role \in Roles /\ (u.student_id # Null => u.role = "student")
       /\ \A c \in Clients : \A u \in sess'[c].pend.users :
            u.role \in Roles /\ (u.student_id # Null => u.role = "student")
       /\ (/\ last.route = "none" /\ last'.route = "register" /\ last'.status = 200
           /\ last'.body.role \in {"admin", "teacher"}) =>
             /\ db'.data.students = db.data.students
             /\ last'.out.row.student_id = Null
             /\ \E u \in db'.data.users :
                   /\ db'.data.users = db.data.users \cup {u} /\ u \notin db.data.users
                   /\ u.username = last'.body.username /\ u.role = last'.body.role
                   /\ u.student_id = Null]_vars

\* a teacher was registered with a student_name in the body
C7_TeacherWithStudentName ==
    /\ last.route = "register" /\ last.status = 200
    /\ last.body.role = "teacher" /\ last.body.student_name = "Ana"

\* C9: POST /api/items with an empty or missing text is answered 400 and
\* changes nothing; otherwise it adds exactly one row, with the text and an id
\* greater than every id of the table, returns that row, and the listing of
\* GET /api/items then begins with it; GET /api/items returns all the items,
\* ids decreasing.
C9_Items ==
    [][/\ (last.route = "none" /\ last'.route = "postItems") =>
            IF Falsy(last'.body) THEN last'.status = 400 /\ db' = db
            ELSE /\ last'.status = 200
                 /\ last'.out.row \notin db.data.items
                 /\ db'.data = [db.data EXCEPT !.items = @ \cup {last'.out.row}]
                 /\ \A i \in db.data.items : last'.out.row.id > i.id
                 /\ last'.out.row.text = last'.body
                 /\ OrderByIdDesc(db'.data.items)[1] = last'.out.row
       /\ (last.route = "none" /\ last'.route = "getItems") =>
            /\ last'.status = 200 /\ db' = db
            /\ {last'.out.rows[i] : i \in DOMAIN last'.out.rows} = db.data.items
            /\ Len(last'.out.rows) = Cardinality(db.data.items)
            /\ \A i, j \in DOMAIN last'.out.rows :
                  i < j => last'.out.rows[i].id > last'.out.rows[j].id]_vars

\* an item was created in a table that held two or more
C9_ItemCreated ==
    /\ last.route = "postItems" /\ last.status = 200
    /\ Cardinality(db.data.items) >= 3
    /\ \A i \in db.data.items : last.out.row.id >= i.id

====
